---- MODULE Spec2Model ----
(***************************************************************************)
(* Model of src/api_misery_index.py: class APIMiseryIndex.                  *)
(*                                                                         *)
(* A tracker owns the label api_name and the lists responses and errors.   *)
(* log_response stores the caller's object itself (a Python reference), so *)
(* payload objects live in a heap the caller shares with the tracker.      *)
(* json.dumps is modelled down to the characters it emits, because the     *)
(* score compares serialized strings and counts characters in them.        *)
(*                                                                         *)
(* The 'timestamp' entry of a record (datetime.now().isoformat()) is read  *)
(* by no operation of the class; a record is modelled by its other entry.  *)
(***************************************************************************)
EXTENDS Integers, Sequences, FiniteSets

VARIABLES
    api_name,    \* self.api_name
    responses,   \* self.responses: list of records, 'data' holds a reference
    errors,      \* self.errors: list of records, 'message' holds the value
    heap,        \* the payload objects created by the caller, by identity
    mutations,   \* number of in-place changes the caller has made so far
    ret          \* outcome of the most recent call on the tracker

vars == <<api_name, responses, errors, heap, mutations, ret>>

----------------------------------------------------------------------------
(* Bounds of the exploration *)

MaxResponses == 3
MaxErrors == 4
MaxMutations == 1
\* errors logged where the caller does not keep to 'error_msg: str'
MaxUntypedErrors == 1

----------------------------------------------------------------------------
(* Python values: numbers, strings (sequences of characters), lists, dicts  *)
(* (insertion-ordered sequences of key/value pairs) and sets, which json   *)
(* cannot serialize.                                                       *)

Num(n) == [tag |-> "int", n |-> n]
Str(s) == [tag |-> "str", s |-> s]
Arr(items) == [tag |-> "list", items |-> items]
Obj(pairs) == [tag |-> "dict", pairs |-> pairs]
PySet == [tag |-> "set"]
None == [tag |-> "None"]

Pair(k, v) == [k |-> k, v |-> v]

\* [[], [], ..., []]: a list of n - 1 empty lists, n opening brackets in all
Flat(n) == Arr([i \in 1..(n - 1) |-> Arr(<<>>)])

Min(a, b) == IF a < b THEN a ELSE b

----------------------------------------------------------------------------
(* json.dumps *)

\* Code point of a character, for Python's string comparison.
Ord(c) ==
    CASE c = " " -> 32
      [] c = "\"" -> 34
      [] c = "," -> 44
      [] c = "0" -> 48 [] c = "1" -> 49 [] c = "2" -> 50 [] c = "3" -> 51
      [] c = "4" -> 52 [] c = "5" -> 53 [] c = "6" -> 54 [] c = "7" -> 55
      [] c = "8" -> 56 [] c = "9" -> 57
      [] c = ":" -> 58
      [] c = "[" -> 91
      [] c = "\\" -> 92
      [] c = "]" -> 93
      [] c = "a" -> 97 [] c = "b" -> 98 [] c = "c" -> 99
      [] c = "z" -> 122
      [] c = "{" -> 123
      [] c = "}" -> 125

RECURSIVE StrLess(_, _)
\* Python's s < t on strings: lexicographic by code point
StrLess(s, t) ==
    IF t = <<>> THEN FALSE
    ELSE IF s = <<>> THEN TRUE
    ELSE IF Ord(Head(s)) # Ord(Head(t)) THEN Ord(Head(s)) < Ord(Head(t))
    ELSE StrLess(Tail(s), Tail(t))

RECURSIVE InsertPair(_, _)
InsertPair(p, sorted) ==
    IF sorted = <<>> THEN <<p>>
    ELSE IF StrLess(p.k, Head(sorted).k) THEN <<p>> \o sorted
    ELSE <<Head(sorted)>> \o InsertPair(p, Tail(sorted))

RECURSIVE SortPairs(_)
\* sorted(dct.items()): the keys of a dict are distinct
SortPairs(pairs) ==
    IF pairs = <<>> THEN <<>>
    ELSE InsertPair(Head(pairs), SortPairs(Tail(pairs)))

Digit(d) == <<"0", "1", "2", "3", "4", "5", "6", "7", "8", "9">>[d + 1]

RECURSIVE Digits(_)
Digits(n) == IF n < 10 THEN <<Digit(n)>> ELSE Digits(n \div 10) \o <<Digit(n % 10)>>

RECURSIVE Escape(_)
\* the body of a JSON string literal
Escape(s) ==
    IF s = <<>> THEN <<>>
    ELSE (IF Head(s) \in {"\"", "\\"} THEN <<"\\", Head(s)>> ELSE <<Head(s)>>)
         \o Escape(Tail(s))

Quote(s) == <<"\"">> \o Escape(s) \o <<"\"">>

RECURSIVE Serializable(_)
\* json.dumps raises TypeError on a value of a type it does not know
Serializable(v) ==
    CASE v.tag = "int" -> TRUE
      [] v.tag = "str" -> TRUE
      [] v.tag = "list" -> \A i \in DOMAIN v.items : Serializable(v.items[i])
      [] v.tag = "dict" -> \A i \in DOMAIN v.pairs : Serializable(v.pairs[i].v)
      [] OTHER -> FALSE

RECURSIVE Dumps(_, _)
RECURSIVE DumpsItems(_, _)
RECURSIVE DumpsPairs(_, _)

\* json.dumps(v, sort_keys=sort_keys) with the default separators ', ' and ': '
Dumps(v, sort_keys) ==
    CASE v.tag = "int" -> Digits(v.n)
      [] v.tag = "str" -> Quote(v.s)
      [] v.tag = "list" -> <<"[">> \o DumpsItems(v.items, sort_keys) \o <<"]">>
      [] v.tag = "dict" ->
            <<"{">>
            \o DumpsPairs(IF sort_keys THEN SortPairs(v.pairs) ELSE v.pairs, sort_keys)
            \o <<"}">>

DumpsItems(items, sort_keys) ==
    IF items = <<>> THEN <<>>
    ELSE Dumps(Head(items), sort_keys)
         \o (IF Tail(items) = <<>> THEN <<>> ELSE <<",", " ">>)
         \o DumpsItems(Tail(items), sort_keys)

DumpsPairs(pairs, sort_keys) ==
    IF pairs = <<>> THEN <<>>
    ELSE Quote(Head(pairs).k) \o <<":", " ">> \o Dumps(Head(pairs).v, sort_keys)
         \o (IF Tail(pairs) = <<>> THEN <<>> ELSE <<",", " ">>)
         \o DumpsPairs(Tail(pairs), sort_keys)

\* str.count for a single character
Count(s, c) == Cardinality({i \in DOMAIN s : s[i] = c})

----------------------------------------------------------------------------
(* Inputs *)

\* {"a": 1, "b": {"c": 1}}
PayloadAB == Obj(<<Pair(<<"a">>, Num(1)), Pair(<<"b">>, Obj(<<Pair(<<"c">>, Num(1))>>))>>)
\* {"b": {"c": 1}, "a": 1}: the same mapping, keys inserted in the other order
PayloadBA == Obj(<<Pair(<<"b">>, Obj(<<Pair(<<"c">>, Num(1))>>)), Pair(<<"a">>, Num(1))>>)
\* {"a": "{["}
PayloadBraces == Obj(<<Pair(<<"a">>, Str(<<"{", "[">>))>>)
\* {"a": set()}
PayloadUnserializable == Obj(<<Pair(<<"a">>, PySet)>>)

Payloads ==
    {Num(1), PayloadAB, PayloadBA, PayloadBraces, Flat(14), Flat(15),
     PayloadUnserializable}

\* "404"
Messages == {Str(<<"4", "0", "4">>)}
\* a caller that ignores the annotation 'error_msg: str' may also pass a
\* value json could not serialize
UntypedMessages == Messages \cup {PySet}

\* the label the demonstration at line 81 constructs its tracker with
ApiNames == {"ExampleAPI"}

----------------------------------------------------------------------------
(* class APIMiseryIndex *)

Return(v) == [kind |-> "return", value |-> v]
Raise(e) == [kind |-> "raise", value |-> e]

Data(rs, hp, i) == hp[rs[i].data]

\* variant: only the two most recent records are kept
log_response_KeepTwo(rs, response_data) ==
    LET all == Append(rs, [data |-> response_data])
    IN  IF Len(all) > 2 THEN Tail(all) ELSE all

log_response(rs, response_data) == Append(rs, [data |-> response_data])

log_error(es, error_msg) == Append(es, [message |-> error_msg])

\* variant: the two payloads are compared without sort_keys
InconsistencyPenalty_Unsorted(rs, hp) ==
    IF Len(rs) > 1
    THEN LET last_two == [i \in 1..2 |-> Dumps(Data(rs, hp, Len(rs) - 2 + i), FALSE)]
         IN  IF last_two[1] # last_two[2] THEN 40 ELSE 0
    ELSE 0

\* lines 48-52
InconsistencyPenalty(rs, hp) ==
    IF Len(rs) > 1
    THEN LET last_two == [i \in 1..2 |-> Dumps(Data(rs, hp, Len(rs) - 2 + i), TRUE)]
         IN  IF last_two[1] # last_two[2] THEN 40 ELSE 0
    ELSE 0

\* variant: the error term is not clamped
ErrorPenalty_Unclamped(es) == Len(es) * 10

\* variant: the error term is subtracted
ErrorPenalty_Subtracted(es) == 0 - Min(30, Len(es) * 10)

\* line 55
ErrorPenalty(es) == Min(30, Len(es) * 10)

\* variant: the delimiter count is not doubled
StructuralPenalty_Undoubled(rs, hp) ==
    IF rs # <<>>
    THEN LET sample == Dumps(Data(rs, hp, Len(rs)), FALSE)
             nesting == Count(sample, "{") + Count(sample, "[")
         IN  Min(30, nesting)
    ELSE 0

\* lines 58-62
StructuralPenalty(rs, hp) ==
    IF rs # <<>>
    THEN LET sample == Dumps(Data(rs, hp, Len(rs)), FALSE)
             nesting == Count(sample, "{") + Count(sample, "[")
         IN  Min(30, nesting * 2)
    ELSE 0

\* variant: the whole history is serialized
Dumped_All(rs) == DOMAIN rs

\* the records whose payload calculate_misery hands to json.dumps:
\* responses[-2:] at lines 49-50 when there are two, responses[-1] at line 59
Dumped(rs) ==
    (IF Len(rs) > 1 THEN {Len(rs) - 1, Len(rs)} ELSE {})
    \cup (IF rs # <<>> THEN {Len(rs)} ELSE {})

\* variant: no early return on an empty history
calculate_misery_NoEarlyReturn(rs, es, hp) ==
    IF \E i \in Dumped(rs) : ~Serializable(Data(rs, hp, i)) THEN Raise("TypeError")
    ELSE Return(Min(100, InconsistencyPenalty(rs, hp) + ErrorPenalty(es)
                         + StructuralPenalty(rs, hp)))

calculate_misery(rs, es, hp) ==
    IF rs = <<>> THEN Return(0)
    ELSE IF \E i \in Dumped(rs) : ~Serializable(Data(rs, hp, i)) THEN Raise("TypeError")
    ELSE Return(Min(100, InconsistencyPenalty(rs, hp) + ErrorPenalty(es)
                         + StructuralPenalty(rs, hp)))

\* variant: the band limits compared with <= instead of <
get_diagnosis_Inclusive(name, rs, es, hp) ==
    LET score == calculate_misery(rs, es, hp)
    IN  IF score.kind = "raise" THEN score
        ELSE IF score.value <= 20
             THEN Return(<<name, ": Suspiciously stable. Check if it's actually running.">>)
        ELSE IF score.value <= 50
             THEN Return(<<name, ": Mild annoyance. You'll only cry a little.">>)
        ELSE IF score.value <= 80
             THEN Return(<<name, ": Significant suffering. Time for a strong drink.">>)
        ELSE Return(<<name, ": CRITICAL. Abandon all hope ye who integrate here.">>)

get_diagnosis(name, rs, es, hp) ==
    LET score == calculate_misery(rs, es, hp)
    IN  IF score.kind = "raise" THEN score
        ELSE IF score.value < 20
             THEN Return(<<name, ": Suspiciously stable. Check if it's actually running.">>)
        ELSE IF score.value < 50
             THEN Return(<<name, ": Mild annoyance. You'll only cry a little.">>)
        ELSE IF score.value < 80
             THEN Return(<<name, ": Significant suffering. Time for a strong drink.">>)
        ELSE Return(<<name, ": CRITICAL. Abandon all hope ye who integrate here.">>)

----------------------------------------------------------------------------
(* The caller *)

\* d[k] = v on a dict: replaces the value of an existing key in place,
\* appends the key otherwise
SetItem(pairs, k, v) ==
    IF \E i \in DOMAIN pairs : pairs[i].k = k
    THEN [i \in DOMAIN pairs |-> IF pairs[i].k = k THEN Pair(k, v) ELSE pairs[i]]
    ELSE Append(pairs, Pair(k, v))

\* the caller nests an empty dict into an object it holds:
\* d["z"] = {} on a dict, l.append({}) on a list
Mutated(v) ==
    IF v.tag = "dict" THEN Obj(SetItem(v.pairs, <<"z">>, Obj(<<>>)))
    ELSE Arr(Append(v.items, Obj(<<>>)))

----------------------------------------------------------------------------
(* Behaviour *)

Init ==
    /\ api_name \in ApiNames
    /\ responses = <<>>
    /\ errors = <<>>
    /\ heap = <<>>
    /\ mutations = 0
    /\ ret = [op |-> "__init__", kind |-> "return", value |-> None]

Outcome(op, r) == [op |-> op, kind |-> r.kind, value |-> r.value]

\* the caller builds a new object and logs it
LogResponse ==
    /\ Len(responses) < MaxResponses
    /\ \E p \in Payloads :
          /\ heap' = Append(heap, p)
          /\ responses' = log_response(responses, Len(heap) + 1)
    /\ ret' = Outcome("log_response", Return(None))
    /\ UNCHANGED <<api_name, errors, mutations>>

LogError ==
    /\ Len(errors) < MaxErrors
    /\ \E m \in Messages : errors' = log_error(errors, m)
    /\ ret' = Outcome("log_error", Return(None))
    /\ UNCHANGED <<api_name, responses, heap, mutations>>

\* log_error called with a value of any type
LogErrorUntyped ==
    /\ Len(errors) < MaxUntypedErrors
    /\ \E m \in UntypedMessages : errors' = log_error(errors, m)
    /\ ret' = Outcome("log_error", Return(None))
    /\ UNCHANGED <<api_name, responses, heap, mutations>>

CalculateMisery ==
    /\ ret' = Outcome("calculate_misery", calculate_misery(responses, errors, heap))
    /\ UNCHANGED <<api_name, responses, errors, heap, mutations>>

GetDiagnosis ==
    /\ ret' = Outcome("get_diagnosis", get_diagnosis(api_name, responses, errors, heap))
    /\ UNCHANGED <<api_name, responses, errors, heap, mutations>>

\* the caller changes in place an object it passed to log_response earlier
CallerMutates ==
    /\ mutations < MaxMutations
    /\ \E r \in DOMAIN heap :
          /\ heap[r].tag \in {"dict", "list"}
          /\ heap' = [heap EXCEPT ![r] = Mutated(heap[r])]
    /\ mutations' = mutations + 1
    /\ ret' = Outcome("caller", Return(None))
    /\ UNCHANGED <<api_name, responses, errors>>

\* the caller passes messages of the annotated type
Next ==
    \/ LogResponse
    \/ LogError
    \/ CalculateMisery
    \/ GetDiagnosis
    \/ CallerMutates

Spec == Init /\ [][Next]_vars

\* the caller passes messages of any type
NextUntyped ==
    \/ LogResponse
    \/ LogErrorUntyped
    \/ CalculateMisery
    \/ GetDiagnosis
    \/ CallerMutates

SpecUntyped == Init /\ [][NextUntyped]_vars

----------------------------------------------------------------------------
(* Vocabulary of the properties *)

Returned(op) == ret.op = op /\ ret.kind = "return"

Front(s) == SubSeq(s, 1, Len(s) - 1)

IsPrefix(s, t) == Len(s) <= Len(t) /\ \A i \in DOMAIN s : t[i] = s[i]

Payload(i) == Data(responses, heap, i)
Last == Payload(Len(responses))
Previous == Payload(Len(responses) - 1)

RECURSIVE SameUpToKeyOrder(_, _)
\* a and b are the same JSON value, the order of the keys of a map set aside
SameUpToKeyOrder(a, b) ==
    /\ a.tag = b.tag
    /\ CASE a.tag = "int" -> a.n = b.n
         [] a.tag = "str" -> a.s = b.s
         [] a.tag = "list" ->
               /\ Len(a.items) = Len(b.items)
               /\ \A i \in DOMAIN a.items : SameUpToKeyOrder(a.items[i], b.items[i])
         [] a.tag = "dict" ->
               /\ Len(a.pairs) = Len(b.pairs)
               /\ \A i \in DOMAIN a.pairs : \E j \in DOMAIN b.pairs :
                     /\ a.pairs[i].k = b.pairs[j].k
                     /\ SameUpToKeyOrder(a.pairs[i].v, b.pairs[j].v)
         [] OTHER -> FALSE

RECURSIVE SumOver(_, _, _)
SumOver(F(_), s, i) == IF i > Len(s) THEN 0 ELSE F(s[i]) + SumOver(F, s, i + 1)

RECURSIVE Containers(_)
\* the number of objects and arrays a value contains, itself included
Containers(v) ==
    CASE v.tag = "list" -> 1 + SumOver(Containers, v.items, 1)
      [] v.tag = "dict" -> LET V(p) == Containers(p.v) IN 1 + SumOver(V, v.pairs, 1)
      [] OTHER -> 0

RECURSIVE OpenChars(_)
\* the number of '{' and '[' characters a value's serialization contains:
\* one per container, and those written in its strings and keys
OpenChars(v) ==
    LET InText(s) == Cardinality({i \in DOMAIN s : s[i] \in {"{", "["}})
    IN  CASE v.tag = "str" -> InText(v.s)
          [] v.tag = "list" -> 1 + SumOver(OpenChars, v.items, 1)
          [] v.tag = "dict" ->
                LET V(p) == InText(p.k) + OpenChars(p.v) IN 1 + SumOver(V, v.pairs, 1)
          [] OTHER -> 0

ExpectedInconsistency ==
    IF Len(responses) < 2 THEN 0
    ELSE IF SameUpToKeyOrder(Previous, Last) THEN 0 ELSE 40

ExpectedErrorPenalty(n) ==
    CASE n = 0 -> 0 [] n = 1 -> 10 [] n = 2 -> 20 [] OTHER -> 30

Score == calculate_misery(responses, errors, heap)

ExpectedMessage(score) ==
    CASE score < 20 -> ": Suspiciously stable. Check if it's actually running."
      [] 20 <= score /\ score < 50 -> ": Mild annoyance. You'll only cry a little."
      [] 50 <= score /\ score < 80 -> ": Significant suffering. Time for a strong drink."
      [] score >= 80 -> ": CRITICAL. Abandon all hope ye who integrate here."

----------------------------------------------------------------------------
(* Properties *)

\* C1: a score that calculate_misery returns lies between 0 and 100.
C1_ScoreInRange ==
    Returned("calculate_misery") => (0 <= ret.value /\ ret.value <= 100)

\* the highest score, returned with four errors on record: the error term
\* is held at 30 and the sum does not pass 100
C1_Witness ==
    /\ Returned("calculate_misery")
    /\ Len(errors) = 4
    /\ ret.value = 100

\* C2: with no response logged calculate_misery returns 0, whatever the
\* number of errors logged.
C2_NoResponsesZero ==
    (ret.op = "calculate_misery" /\ responses = <<>>)
        => (ret.kind = "return" /\ ret.value = 0)

C2_Witness ==
    /\ Returned("calculate_misery")
    /\ responses = <<>>
    /\ Len(errors) >= 3
    /\ ret.value = 0

\* C3: the inconsistency term is 0 with fewer than two responses, 0 when the
\* last two payloads are the same value up to the order of map keys, and 40
\* when they are not; only the last two responses enter it.
C3_Inconsistency ==
    (Returned("calculate_misery") /\ responses # <<>>)
        => ret.value = ExpectedInconsistency + ErrorPenalty(errors)
                       + StructuralPenalty(responses, heap)

\* three responses: the last two differ in key order only, the first differs
\* from both, and the score holds the structural term alone
C3_Witness ==
    /\ Returned("calculate_misery")
    /\ Len(responses) = 3
    /\ Payload(1) = Num(1)
    /\ Payload(2) = PayloadAB
    /\ Payload(3) = PayloadBA
    /\ errors = <<>>
    /\ ret.value = 4

\* C4: the error term is min(30, 10 * number of errors): 0, 10, 20, 30, 30...
\* With a response on record, each of the first three log_error calls raises
\* the score by 10 and every later one leaves it unchanged.
C4_ErrorPenalty ==
    /\ (Returned("calculate_misery") /\ responses # <<>>)
          => ret.value = InconsistencyPenalty(responses, heap)
                         + ExpectedErrorPenalty(Len(errors))
                         + StructuralPenalty(responses, heap)
    \* right after a log_error call: the call left responses and their
    \* payloads alone, so the score before it is the score without the
    \* last error record
    /\ (ret.op = "log_error" /\ responses # <<>> /\ Score.kind = "return")
          => LET before == calculate_misery(responses, Front(errors), heap)
             IN  /\ before.kind = "return"
                 /\ Score.value = before.value + (IF Len(errors) <= 3 THEN 10 ELSE 0)

\* the score after a fourth error: the error term stays at 30
C4_Witness ==
    /\ Returned("calculate_misery")
    /\ Len(responses) = 1
    /\ Last = Num(1)
    /\ Len(errors) = 4
    /\ ret.value = 30

\* C5 as stated: the structural term is min(30, 2 * number of objects and
\* arrays of the last payload), also when its strings or keys hold '{' or '['.
C5_StructuralCountsContainers ==
    (Returned("calculate_misery") /\ responses # <<>>)
        => ret.value = InconsistencyPenalty(responses, heap) + ErrorPenalty(errors)
                       + Min(30, 2 * Containers(Last))

\* C6: get_diagnosis returns the label followed by the message of the band
\* holding the score of the same state: below 20, 20 to below 50, 50 to
\* below 80, 80 and above.
C6_DiagnosisBands ==
    (ret.op = "get_diagnosis" /\ Score.kind = "return")
        => (ret.kind = "return" /\ ret.value = <<api_name, ExpectedMessage(Score.value)>>)

\* a diagnosis given at a score of exactly 50
C6_Witness ==
    /\ Returned("get_diagnosis")
    /\ Score.kind = "return"
    /\ Score.value = 50
    /\ ret.value[2] = ": Significant suffering. Time for a strong drink."

AnyUnserializableLogged ==
    \/ \E i \in DOMAIN responses : ~Serializable(Payload(i))
    \/ \E i \in DOMAIN errors : ~Serializable(errors[i].message)

\* C7 as stated: logging never fails, and calculate_misery and get_diagnosis
\* fail exactly when an unserializable value has been logged, through
\* log_response or through log_error.
C7_FailsOnAnyUnserializable ==
    /\ ret.op \in {"log_response", "log_error"} => ret.kind = "return"
    /\ ret.op \in {"calculate_misery", "get_diagnosis"}
          => (ret.kind = "raise" <=> AnyUnserializableLogged)

\* C7 amended: logging never fails; calculate_misery and get_diagnosis fail
\* exactly when the payload of one of the last two responses on record
\* cannot be serialized. Earlier payloads and error messages are not
\* serialized.
C7_FailsOnLastTwoOnly ==
    /\ ret.op \in {"log_response", "log_error"} => ret.kind = "return"
    /\ ret.op \in {"calculate_misery", "get_diagnosis"}
          => (ret.kind = "raise"
                <=> \E i \in DOMAIN responses :
                       i > Len(responses) - 2 /\ ~Serializable(Payload(i)))

\* a score returned although the first of three payloads and an error
\* message are unserializable
C7_Witness ==
    /\ Returned("calculate_misery")
    /\ Len(responses) = 3
    /\ ~Serializable(Payload(1))
    /\ errors # <<>>
    /\ ~Serializable(errors[1].message)

\* C8: both lists start empty; log_response appends one record to responses
\* and leaves errors alone, log_error appends one record to errors and leaves
\* responses alone, calculate_misery and get_diagnosis change neither list;
\* the label never changes, and the old lists are prefixes of the new ones.
C8_AppendOnly ==
    /\ responses = <<>> /\ errors = <<>>
    /\ [][ /\ api_name' = api_name
           /\ IsPrefix(responses, responses')
           /\ IsPrefix(errors, errors')
           /\ ret'.op = "log_response"
                 => Len(responses') = Len(responses) + 1 /\ errors' = errors
           /\ ret'.op = "log_error"
                 => Len(errors') = Len(errors) + 1 /\ responses' = responses
           /\ ret'.op \in {"calculate_misery", "get_diagnosis"}
                 => responses' = responses /\ errors' = errors ]_vars

\* the same payload logged three times and the same message twice:
\* three records and two records
C8_Witness ==
    /\ Len(responses) = 3
    /\ Payload(1) = PayloadAB /\ Payload(2) = PayloadAB /\ Payload(3) = PayloadAB
    /\ Len(errors) = 2
    /\ errors[1] = errors[2]

\* C9 as stated: the payload of a record stays the value it had when it was
\* logged, whatever the caller does to the object afterwards.
C9_RecordedPayloadFixed ==
    [][ \A i \in DOMAIN responses :
           Data(responses', heap', i) = Data(responses, heap, i) ]_vars

\* C10: the terms are at most 40, 30 and 30, so the clamp at 100 changes
\* nothing; the score is even; and it is 100 exactly when the last two of at
\* least two responses differ in canonical form, at least three errors are
\* logged and the last payload serializes with at least 15 '{' or '['.
C10_SumAndParity ==
    Returned("calculate_misery")
        => /\ InconsistencyPenalty(responses, heap) <= 40
           /\ ErrorPenalty(errors) <= 30
           /\ StructuralPenalty(responses, heap) <= 30
           /\ responses # <<>>
                 => ret.value = InconsistencyPenalty(responses, heap)
                                + ErrorPenalty(errors)
                                + StructuralPenalty(responses, heap)
           /\ ret.value % 2 = 0
           /\ ret.value = 100
                 <=> /\ Len(responses) >= 2
                     /\ ~SameUpToKeyOrder(Previous, Last)
                     /\ Len(errors) >= 3
                     /\ OpenChars(Last) >= 15

\* the full score, from a last payload with exactly 15 delimiters
C10_Witness ==
    /\ Returned("calculate_misery")
    /\ ret.value = 100
    /\ OpenChars(Last) = 15
    /\ Len(errors) = 3

====
